---------------------------- MODULE Spec2Model ----------------------------
(***************************************************************************)
(* A model of app.py: the heading/outline inference engine                 *)
(* (extract_text_with_style, find_title, process_headings,                 *)
(* assign_heading_levels, extract_document_structure) and the batch loop   *)
(* of the __main__ block.                                                  *)
(*                                                                         *)
(* Conventions.  A character is a one-character string and a text is a     *)
(* sequence of characters, so that strip, split, isupper, join and the     *)
(* regular expressions are computed on the characters.  Font sizes are     *)
(* counted in quarters of a point (a size of 12.25 is 49), page            *)
(* coordinates in points, scores in halves (a score of 4.5 is 9).          *)
(***************************************************************************)
EXTENDS Integers, Sequences, FiniteSets, TLC

(***************************************************************************)
(* Characters and the str methods the program calls                        *)
(***************************************************************************)
LOWER ==
  << "a", "b", "c", "d", "e", "f", "g", "h", "i", "j", "k", "l", "m",
     "n", "o", "p", "q", "r", "s", "t", "u", "v", "w", "x", "y", "z" >>

UPPER ==
  << "A", "B", "C", "D", "E", "F", "G", "H", "I", "J", "K", "L", "M",
     "N", "O", "P", "Q", "R", "S", "T", "U", "V", "W", "X", "Y", "Z" >>

LowerSet == { LOWER[i] : i \in 1..Len(LOWER) }

UpperSet == { UPPER[i] : i \in 1..Len(UPPER) }

Digits == { "0", "1", "2", "3", "4", "5", "6", "7", "8", "9" }

Letters == LowerSet \cup UpperSet

AlNum == Letters \cup Digits

\* \w
WordChars == AlNum \cup { "_" }

\* \s, and what str.strip() and str.split() take for white space
WhiteSpace == { " ", "\t" }

IndexIn(c, seq) == CHOOSE i \in 1..Len(seq) : seq[i] = c

ToLower(c) == IF c \in UpperSet THEN LOWER[IndexIn(c, UPPER)] ELSE c

ToUpper(c) == IF c \in LowerSet THEN UPPER[IndexIn(c, LOWER)] ELSE c

SwapCase(c) == IF c \in UpperSet THEN ToLower(c) ELSE ToUpper(c)

\* str.lower()
Lower(s) == [i \in 1..Len(s) |-> ToLower(s[i])]

\* str.strip()
Strip(s) ==
  LET keep == { i \in 1..Len(s) : s[i] \notin WhiteSpace }
  IN  IF keep = {} THEN << >>
      ELSE LET lo == CHOOSE i \in keep : \A j \in keep : i <= j
               hi == CHOOSE i \in keep : \A j \in keep : j <= i
           IN  SubSeq(s, lo, hi)

\* len(str.split()): the number of maximal runs of non-white-space characters
WordCount(s) ==
  Cardinality({ i \in 1..Len(s) :
                  /\ s[i] \notin WhiteSpace
                  /\ (i = 1 \/ s[i - 1] \in WhiteSpace) })

\* str.isupper(): some cased character, and no lower-case one
IsUpper(s) ==
  /\ \E i \in 1..Len(s) : s[i] \in UpperSet
  /\ \A i \in 1..Len(s) : s[i] \notin LowerSet

\* str.endswith(suffix)
EndsWith(s, suffix) ==
  /\ Len(suffix) <= Len(s)
  /\ SubSeq(s, Len(s) - Len(suffix) + 1, Len(s)) = suffix

(***************************************************************************)
(* Regular expressions (module re).  A pattern is a tree; Ends(r, s, i,    *)
(* ic) is the set of positions at which a match of r that starts at        *)
(* position i of s can end, ic being re.IGNORECASE.  re.match asks for a   *)
(* match at position 1, re.search for a match at any position.             *)
(***************************************************************************)
Ch(S) == [t |-> "set", s |-> S]

NotCh(S) == [t |-> "nset", s |-> S]

AnyCh == [t |-> "any"]

Bol == [t |-> "bol"]

Eol == [t |-> "eol"]

WordB == [t |-> "wb"]

Cat(rs) == [t |-> "cat", r |-> rs]

Alt(rs) == [t |-> "alt", r |-> rs]

\* r{lo,hi}; hi = -1 stands for no upper limit
Rep(r, lo, hi) == [t |-> "rep", r |-> r, lo |-> lo, hi |-> hi]

Star(r) == Rep(r, 0, -1)

Plus(r) == Rep(r, 1, -1)

Opt(r) == Rep(r, 0, 1)

\* a literal string
Lit(cs) == Cat([k \in 1..Len(cs) |-> Ch({cs[k]})])

IsWordAt(s, i) == i >= 1 /\ i <= Len(s) /\ s[i] \in WordChars

InClass(c, S, ic) == c \in S \/ (ic /\ SwapCase(c) \in S)

RECURSIVE Ends(_, _, _, _)
RECURSIVE CatEnds(_, _, _, _, _)
RECURSIVE RepEnds(_, _, _, _, _, _, _)

Ends(r, s, i, ic) ==
  CASE r.t = "set"  -> IF i <= Len(s) /\ InClass(s[i], r.s, ic) THEN {i + 1} ELSE {}
    [] r.t = "nset" -> IF i <= Len(s) /\ ~InClass(s[i], r.s, ic) THEN {i + 1} ELSE {}
    [] r.t = "any"  -> IF i <= Len(s) THEN {i + 1} ELSE {}
    [] r.t = "bol"  -> IF i = 1 THEN {i} ELSE {}
    [] r.t = "eol"  -> IF i = Len(s) + 1 THEN {i} ELSE {}
    [] r.t = "wb"   -> IF IsWordAt(s, i - 1) # IsWordAt(s, i) THEN {i} ELSE {}
    [] r.t = "cat"  -> CatEnds(r.r, 1, s, {i}, ic)
    [] r.t = "alt"  -> UNION { Ends(r.r[k], s, i, ic) : k \in 1..Len(r.r) }
    [] r.t = "rep"  -> RepEnds(r.r, s, {i}, 0, r.lo, r.hi, ic)

CatEnds(rs, k, s, P, ic) ==
  IF k > Len(rs) \/ P = {} THEN P
  ELSE CatEnds(rs, k + 1, s, UNION { Ends(rs[k], s, p, ic) : p \in P }, ic)

\* P: the positions reached after n repetitions
RepEnds(r, s, P, n, lo, hi, ic) ==
  IF P = {} THEN {}
  ELSE (IF n >= lo THEN P ELSE {})
       \cup (IF (hi = -1 /\ n < lo + Len(s) + 1) \/ n < hi
             THEN RepEnds(r, s, UNION { Ends(r, s, p, ic) : p \in P },
                          n + 1, lo, hi, ic)
             ELSE {})

\* re.match(p, text) is not None
Match(p, s, ic) == Ends(p, s, 1, ic) # {}

\* re.search(p, text) is not None
Search(p, s, ic) == \E i \in 1..(Len(s) + 1) : Ends(p, s, i, ic) # {}

(***************************************************************************)
(* Configuration (app.py lines 9-25)                                       *)
(***************************************************************************)
MAX_HEADING_WORDS == 15

MIN_PARAGRAPH_WORDS == 8

\* MAX_HEADING_DENSITY = 0.6, in tenths
MAX_HEADING_DENSITY_TENTHS == 6

HEADING_SCORE_THRESHOLD == 5

\* BLOCKLIST_REGEX, in the order of the list
BLOCKLIST_REGEX ==
  << \* ^\d+$
     Cat(<< Bol, Plus(Ch(Digits)), Eol >>),
     \* ^[ivxlcdm]+$
     Cat(<< Bol, Plus(Ch({ "i", "v", "x", "l", "c", "d", "m" })), Eol >>),
     \* ^[a-z]$
     Cat(<< Bol, Ch(LowerSet), Eol >>),
     \* ^Table of Contents$
     Cat(<< Bol, Lit(<< "T", "a", "b", "l", "e", " ", "o", "f", " ", "C", "o", "n", "t", "e", "n", "t", "s" >>), Eol >>),
     \* ^Appendix$
     Cat(<< Bol, Lit(<< "A", "p", "p", "e", "n", "d", "i", "x" >>), Eol >>),
     \* ^Index$
     Cat(<< Bol, Lit(<< "I", "n", "d", "e", "x" >>), Eol >>),
     \* ^References$
     Cat(<< Bol, Lit(<< "R", "e", "f", "e", "r", "e", "n", "c", "e", "s" >>), Eol >>),
     \* ^Bibliography$
     Cat(<< Bol, Lit(<< "B", "i", "b", "l", "i", "o", "g", "r", "a", "p", "h", "y" >>), Eol >>),
     \* ^\s*$
     Cat(<< Bol, Star(Ch(WhiteSpace)), Eol >>),
     \* ^[^a-zA-Z0-9]+$
     Cat(<< Bol, Plus(NotCh(AlNum)), Eol >>),
     \* ^(Chapter|Section|Fig|Figure|Table)\b
     Cat(<< Bol,
            Alt(<< Lit(<< "C", "h", "a", "p", "t", "e", "r" >>),
                   Lit(<< "S", "e", "c", "t", "i", "o", "n" >>),
                   Lit(<< "F", "i", "g" >>),
                   Lit(<< "F", "i", "g", "u", "r", "e" >>),
                   Lit(<< "T", "a", "b", "l", "e" >>) >>),
            WordB >>),
     \* \b\d{1,2}(st|nd|rd|th)?\s+(Jan|Feb|...|Dec)[a-z]*\b
     Cat(<< WordB, Rep(Ch(Digits), 1, 2),
            Opt(Alt(<< Lit(<< "s", "t" >>), Lit(<< "n", "d" >>), Lit(<< "r", "d" >>), Lit(<< "t", "h" >>) >>)),
            Plus(Ch(WhiteSpace)),
            Alt(<< Lit(<< "J", "a", "n" >>),
                   Lit(<< "F", "e", "b" >>),
                   Lit(<< "M", "a", "r" >>),
                   Lit(<< "A", "p", "r" >>),
                   Lit(<< "M", "a", "y" >>),
                   Lit(<< "J", "u", "n" >>),
                   Lit(<< "J", "u", "l" >>),
                   Lit(<< "A", "u", "g" >>),
                   Lit(<< "S", "e", "p" >>),
                   Lit(<< "O", "c", "t" >>),
                   Lit(<< "N", "o", "v" >>),
                   Lit(<< "D", "e", "c" >>) >>),
            Star(Ch(LowerSet)), WordB >>),
     \* \b(Mon|Tue|Wed|Thu|Fri|Sat|Sun)\w*\b
     Cat(<< WordB,
            Alt(<< Lit(<< "M", "o", "n" >>),
                   Lit(<< "T", "u", "e" >>),
                   Lit(<< "W", "e", "d" >>),
                   Lit(<< "T", "h", "u" >>),
                   Lit(<< "F", "r", "i" >>),
                   Lit(<< "S", "a", "t" >>),
                   Lit(<< "S", "u", "n" >>) >>),
            Star(Ch(WordChars)), WordB >>),
     \* ^\d{1,2}/\d{1,2}/\d{2,4}$
     Cat(<< Bol, Rep(Ch(Digits), 1, 2), Ch({ "/" }), Rep(Ch(Digits), 1, 2),
            Ch({ "/" }), Rep(Ch(Digits), 2, 4), Eol >>),
     \* ^\d{4}-\d{2}-\d{2}$
     Cat(<< Bol, Rep(Ch(Digits), 4, 4), Ch({ "-" }), Rep(Ch(Digits), 2, 2),
            Ch({ "-" }), Rep(Ch(Digits), 2, 2), Eol >>) >>

(***************************************************************************)
(* Utility functions                                                       *)
(***************************************************************************)
\* is_blocked: the patterns are compiled with re.IGNORECASE and tried with
\* pattern.match, which anchors a match at the start of the stripped text
is_blocked(text) ==
  LET stripped == Strip(text)
  IN  \/ stripped = << >>
      \/ \E k \in 1..Len(BLOCKLIST_REGEX) : Match(BLOCKLIST_REGEX[k], stripped, TRUE)

\* calculate_text_density: len(text) / (bbox[2] - bbox[0]), or 0 when the box
\* has no width; kept as the fraction num/den
calculate_text_density(text, bbox) ==
  LET text_width == bbox[3] - bbox[1]
  IN  IF text_width > 0 THEN [num |-> Len(text), den |-> text_width]
      ELSE [num |-> 0, den |-> 1]

(***************************************************************************)
(* Text classification                                                     *)
(***************************************************************************)
paragraph_indicators ==
  << \* ^[A-Z][a-z].*[.!?]$
     Cat(<< Bol, Ch(UpperSet), Ch(LowerSet), Star(AnyCh),
            Ch({ ".", "!", "?" }), Eol >>),
     \* .*\b[a-z]{3,}\b.*
     Cat(<< Star(AnyCh), WordB, Rep(Ch(LowerSet), 3, -1), WordB, Star(AnyCh) >>),
     \* .*,\s[a-z].*
     Cat(<< Star(AnyCh), Ch({ "," }), Ch(WhiteSpace), Ch(LowerSet), Star(AnyCh) >>),
     \* .*\b(and|the|of|in|to)\b
     Cat(<< Star(AnyCh), WordB,
            Alt(<< Lit(<< "a", "n", "d" >>),
                   Lit(<< "t", "h", "e" >>),
                   Lit(<< "o", "f" >>),
                   Lit(<< "i", "n" >>),
                   Lit(<< "t", "o" >>) >>),
            WordB >>),
     \* .{50,}
     Rep(AnyCh, 50, -1) >>

is_paragraph(text) ==
  LET stripped == Strip(text)
  IN  IF stripped = << >> \/ WordCount(stripped) < MIN_PARAGRAPH_WORDS THEN FALSE
      ELSE Cardinality({ k \in 1..Len(paragraph_indicators) :
                           Search(paragraph_indicators[k], stripped, FALSE) }) >= 3

\* [A-Z][a-z]*
CapWord == Cat(<< Ch(UpperSet), Star(Ch(LowerSet)) >>)

\* the (pattern, points) pairs of heading_indicators
heading_indicators ==
  << \* ^([A-Z][a-z]*)(\s+[A-Z][a-z]*)*$
     [p |-> Cat(<< Bol, CapWord,
                   Star(Cat(<< Plus(Ch(WhiteSpace)), CapWord >>)), Eol >>),
      points |-> 2],
     \* ^[A-Z][a-z][^.!?]*$
     [p |-> Cat(<< Bol, Ch(UpperSet), Ch(LowerSet),
                   Star(NotCh({ ".", "!", "?" })), Eol >>),
      points |-> 1],
     \* ^[A-Z][^?.]*\?$
     [p |-> Cat(<< Bol, Ch(UpperSet), Star(NotCh({ "?", "." })),
                   Ch({ "?" }), Eol >>),
      points |-> 2],
     \* ^\d+\.\s+[A-Z]
     [p |-> Cat(<< Bol, Plus(Ch(Digits)), Ch({ "." }), Plus(Ch(WhiteSpace)),
                   Ch(UpperSet) >>),
      points |-> 2],
     \* ^[A-Z]\w*(:\s+[A-Z][a-z][^.!?]*)?$
     [p |-> Cat(<< Bol, Ch(UpperSet), Star(Ch(WordChars)),
                   Opt(Cat(<< Ch({ ":" }), Plus(Ch(WhiteSpace)), Ch(UpperSet),
                              Ch(LowerSet), Star(NotCh({ ".", "!", "?" })) >>)),
                   Eol >>),
      points |-> 1] >>

RECURSIVE SumPoints(_, _)
SumPoints(s, k) ==
  IF k > Len(heading_indicators) THEN 0
  ELSE (IF Match(heading_indicators[k].p, s, FALSE)
        THEN heading_indicators[k].points ELSE 0)
       + SumPoints(s, k + 1)

is_heading_like(text) ==
  LET stripped == Strip(text)
  IN  IF stripped = << >> \/ WordCount(stripped) > MAX_HEADING_WORDS THEN FALSE
      ELSE LET base == SumPoints(stripped, 1)
               \* re.search(r'[.!]$', text) and not text.endswith('?')
               ends_stop == /\ Search(Cat(<< Ch({ ".", "!" }), Eol >>), stripped, FALSE)
                            /\ ~EndsWith(stripped, << "?" >>)
               \* text[0].islower() and len(text.split()) > 3
               starts_low == stripped[1] \in LowerSet /\ WordCount(stripped) > 3
               score == base - (IF ends_stop THEN 2 ELSE 0)
                             - (IF starts_low THEN 1 ELSE 0)
           IN  score >= 2

(***************************************************************************)
(* The texts the layout provider yields in the documents explored          *)
(***************************************************************************)
\* one capitalized word: heading-like
TxtIntroduction ==
  << "I", "n", "t", "r", "o", "d", "u", "c", "t", "i", "o", "n" >>

\* upper case, not heading-like
TxtResults ==
  << "R", "E", "S", "U", "L", "T", "S" >>

\* lower case, neither heading-like nor a paragraph
TxtSeeNotes ==
  << "s", "e", "e", " ", "n", "o", "t", "e", "s", " ", "b", "e", "l", "o",
     "w" >>

\* 11 words, upper case, heading-like
TxtEleven ==
  << "A", " ", "B", " ", "C", " ", "D", " ", "E", " ", "F", " ", "G", " ",
     "H", " ", "I", " ", "J", " ", "K" >>

\* 16 words: more than MAX_HEADING_WORDS
TxtSixteen ==
  << "A", " ", "B", " ", "C", " ", "D", " ", "E", " ", "F", " ", "G", " ",
     "H", " ", "I", " ", "J", " ", "K", " ", "L", " ", "M", " ", "N", " ",
     "O", " ", "P" >>

\* 10 words: a paragraph
TxtSentence ==
  << "I", "t", " ", "i", "s", " ", "t", "h", "e", " ", "e", "n", "d", ",",
     " ", "a", "n", "d", " ", "s", "o", " ", "o", "n", ",", " ", "a", " ",
     "b", " ", "c", "." >>

\* blocked once stripped (^Appendix$)
TxtAppendix ==
  << " ", "A", "p", "p", "e", "n", "d", "i", "x", " " >>

\* blocked (^\d+$)
TxtPageNumber ==
  << "1", "2" >>

\* blocked: empty once stripped
TxtBlank ==
  << " ", " " >>

\* blocked: it starts with Mon (the weekday pattern, tried with match)
TxtMonitoring ==
  << "M", "o", "n", "i", "t", "o", "r", "i", "n", "g", " ", "S", "y", "s",
     "t", "e", "m", "s" >>

RichTexts ==
  { TxtIntroduction, TxtResults, TxtSeeNotes, TxtEleven, TxtSixteen, TxtSentence,
    TxtAppendix, TxtPageNumber, TxtBlank, TxtMonitoring }

\* the text of the k-th line of a document whose lines are told apart by their
\* texts: "Ab1", "Ab2", ... (heading-like), or "AB1", "AB2", ... (upper case)
IndexedText(k, caps) == << "A", IF caps THEN "B" ELSE "b", ToString(k) >>

IndexedTexts == { IndexedText(k, caps) : k \in 1..9, caps \in BOOLEAN }

KnownTexts ==
  LET raw == RichTexts \cup IndexedTexts
  IN  raw \cup { Strip(x) : x \in raw }

\* is_blocked, is_paragraph and is_heading_like of the known texts, computed
\* once; a text outside the table is classified on the spot
TextFacts ==
  [x \in KnownTexts |->
     [blocked      |-> is_blocked(x),
      is_paragraph |-> is_paragraph(x),
      heading_like |-> is_heading_like(x)]]

Blocked(x) == IF x \in KnownTexts THEN TextFacts[x].blocked ELSE is_blocked(x)

Paragraph(x) == IF x \in KnownTexts THEN TextFacts[x].is_paragraph ELSE is_paragraph(x)

HeadingLike(x) == IF x \in KnownTexts THEN TextFacts[x].heading_like ELSE is_heading_like(x)

(***************************************************************************)
(* Python built-ins the engine relies on                                   *)
(***************************************************************************)
\* the value a call returns, or the exception it raises
Ok(v) == [exc |-> "", val |-> v]

Raise(e) == [exc |-> e, val |-> << >>]

Abs(x) == IF x < 0 THEN -x ELSE x

Min2(a, b) == IF a <= b THEN a ELSE b

RECURSIVE SeqSum(_)
SeqSum(s) == IF s = << >> THEN 0 ELSE Head(s) + SeqSum(Tail(s))

SeqMax(s) == CHOOSE m \in { s[i] : i \in 1..Len(s) } : \A i \in 1..Len(s) : s[i] <= m

SeqMin(s) == CHOOSE m \in { s[i] : i \in 1..Len(s) } : \A i \in 1..Len(s) : m <= s[i]

RECURSIVE Concat(_)
\* "".join(parts)
Concat(parts) == IF parts = << >> THEN << >> ELSE Head(parts) \o Concat(Tail(parts))

RECURSIVE JoinSpace(_)
\* " ".join(parts)
JoinSpace(parts) ==
  IF parts = << >> THEN << >>
  ELSE IF Len(parts) = 1 THEN parts[1]
  ELSE parts[1] \o << " " >> \o JoinSpace(Tail(parts))

\* list.sort / sorted: a stable sort.  less[<<i, j>>] says that the key of
\* item i is smaller than the key of item j; the result is the order of the
\* items' indices.  An item is placed behind every item that is not greater.
InsertIdx(prev, i, less) ==
  LET later == { k \in 1..Len(prev) : less[<< i, prev[k] >>] }
  IN  IF later = {} THEN Append(prev, i)
      ELSE LET k == CHOOSE x \in later : \A y \in later : x <= y
           IN  SubSeq(prev, 1, k - 1) \o << i >> \o SubSeq(prev, k, Len(prev))

RECURSIVE SortIdx(_, _)
SortIdx(n, less) == IF n = 0 THEN << >> ELSE InsertIdx(SortIdx(n - 1, less), n, less)

StableSort(items, less) ==
  LET order == SortIdx(Len(items), less)
  IN  [k \in 1..Len(items) |-> items[order[k]]]

\* round(x): to the nearest integer, a tie going to the even one.  Here
\* round(font_size * 2) / 2 on a size counted in quarters of a point.
RoundToHalf(q) ==
  IF q % 2 = 0 THEN q
  ELSE LET k == (q - 1) \div 2
       IN  IF k % 2 = 0 THEN 2 * k ELSE 2 * (k + 1)

(***************************************************************************)
(* Text extraction                                                         *)
(***************************************************************************)
\* the dict appended for one line of the page (lines 77-98); line is what the
\* layout provider yields: page_num, page_width, spans (text, size, flags)
\* and bbox
LineText(line) == Strip(Concat([k \in 1..Len(line.spans) |-> line.spans[k].text]))

MakeElement(line) ==
  LET line_text == LineText(line)
      font_size == SeqMax([k \in 1..Len(line.spans) |-> line.spans[k].size])
      flags     == line.spans[1].flags
      bbox      == line.bbox
  IN  [page         |-> line.page_num + 1,
       text         |-> line_text,
       font_size    |-> font_size,
       bold         |-> (flags \div 2) % 2 = 1,
       italic       |-> (flags \div 4) % 2 = 1,
       caps         |-> IsUpper(line_text),
       words        |-> WordCount(line_text),
       centered     |-> Abs(bbox[1] - (line.page_width - bbox[3])) < 20,
       density      |-> calculate_text_density(line_text, bbox),
       bbox         |-> bbox,
       is_paragraph |-> Paragraph(line_text),
       heading_like |-> HeadingLike(line_text)]

\* a loop that keeps every line
SkipLine_never(line) == FALSE

\* whether the loop body skips the line (lines 78-79)
SkipLine(line) == Blocked(LineText(line))

RECURSIVE extract_text_with_style(_)
extract_text_with_style(doc) ==
  IF doc = << >> THEN << >>
  ELSE LET rest == extract_text_with_style(Tail(doc))
       IN  IF SkipLine(Head(doc)) THEN rest
           ELSE << MakeElement(Head(doc)) >> \o rest

(***************************************************************************)
(* Title detection                                                         *)
(***************************************************************************)
\* a tolerance that takes in a size exactly 0.5 below the largest
NearMaxFont_inclusive(size, max_font) == Abs(size - max_font) <= 2

\* abs(e["font_size"] - max_font) < 0.5 (line 108)
NearMaxFont(size, max_font) == Abs(size - max_font) < 2

\* lines 107-112; max() of an empty list raises ValueError
TitleFrom(first_page_elements) ==
  IF first_page_elements = << >> THEN Raise("ValueError")
  ELSE
    LET max_font == SeqMax([k \in 1..Len(first_page_elements) |->
                              first_page_elements[k].font_size])
        title_candidates ==
          SelectSeq(first_page_elements,
                    LAMBDA e : NearMaxFont(e.font_size, max_font))
        less == [ij \in (1..Len(title_candidates)) \X (1..Len(title_candidates)) |->
                   title_candidates[ij[1]].bbox[2] < title_candidates[ij[2]].bbox[2]]
        sorted == StableSort(title_candidates, less)
        first3 == SubSeq(sorted, 1, Min2(3, Len(sorted)))
    IN  Ok(Strip(JoinSpace([k \in 1..Len(first3) |-> first3[k].text])))

find_title(elements) ==
  LET first_page_elements ==
        SelectSeq(elements, LAMBDA e : e.page = 1 /\ ~Blocked(e.text))
  IN  IF first_page_elements = << >> THEN Ok(<< >>)
      ELSE TitleFrom(first_page_elements)

(***************************************************************************)
(* Heading processing                                                      *)
(***************************************************************************)
\* 1e-6 (line 131) in millionths of a quarter of a point
EPSILON_MICRO == 4

\* the size bucket of lines 131-134.  With n sizes of sum total, avg_size is
\* total / n, and size_ratio > a / b is decided on the integers:
\*   (size - total / n) / (size_range + 1e-6) > a / b
\*   iff  b * (size * n - total) * 10^6 > a * n * (size_range * 10^6 + 4)
RatioAbove(size, total, n, size_range, a, b) ==
  b * (size * n - total) * 1000000 > a * n * (size_range * 1000000 + EPSILON_MICRO)

SizeScore(size, total, n, size_range) ==
  IF RatioAbove(size, total, n, size_range, 1, 2) THEN 3
  ELSE IF RatioAbove(size, total, n, size_range, 1, 5) THEN 2
  ELSE IF RatioAbove(size, total, n, size_range, 0, 1) THEN 1
  ELSE 0

\* the score of one element, in halves (lines 131-141)
Score2(e, total, n, size_range) ==
    2 * SizeScore(e.font_size, total, n, size_range)
  + (IF e.bold THEN 4 ELSE 0)
  + (IF e.caps /\ e.words <= 8 THEN 2 ELSE 0)
  + (IF e.centered THEN 2 ELSE 0)
  + (IF e.words <= 10 THEN 2 ELSE IF e.words <= 15 THEN 1 ELSE 0)
  + (IF 10 * e.density.num < MAX_HEADING_DENSITY_TENTHS * e.density.den THEN 2 ELSE 0)
  + (IF e.heading_like THEN 4 ELSE 0)

\* a threshold that has to be exceeded
ReachesThreshold_strict(score2) == score2 > 2 * HEADING_SCORE_THRESHOLD

\* if score >= HEADING_SCORE_THRESHOLD (line 143)
ReachesThreshold(score2) == score2 >= 2 * HEADING_SCORE_THRESHOLD

\* {**e, "score": score}
WithScore(e, score) == ("score" :> score) @@ e

RECURSIVE ScoreLoop(_, _, _, _)
\* the loop of lines 126-144
ScoreLoop(elements, total, n, size_range) ==
  IF elements = << >> THEN << >>
  ELSE LET e == Head(elements)
           rest == ScoreLoop(Tail(elements), total, n, size_range)
           score == Score2(e, total, n, size_range)
       IN  IF e.is_paragraph THEN rest
           ELSE IF ReachesThreshold(score)
                THEN << WithScore(e, score) >> \o rest
                ELSE rest

\* lines 123-146; the division of line 123 raises ZeroDivisionError on an
\* empty list
ScoreAgainst(elements, non_para_sizes) ==
  IF Len(non_para_sizes) = 0 THEN Raise("ZeroDivisionError")
  ELSE Ok(ScoreLoop(elements, SeqSum(non_para_sizes), Len(non_para_sizes),
                    SeqMax(non_para_sizes) - SeqMin(non_para_sizes)))

NonParaSizes(elements) ==
  LET non_para == SelectSeq(elements, LAMBDA e : ~e.is_paragraph)
  IN  [k \in 1..Len(non_para) |-> non_para[k].font_size]

\* process_headings without its two early returns
process_headings_unguarded(elements) == ScoreAgainst(elements, NonParaSizes(elements))

process_headings(elements) ==
  IF elements = << >> THEN Ok(<< >>)
  ELSE LET non_para_sizes == NonParaSizes(elements)
       IN  IF non_para_sizes = << >> THEN Ok(<< >>)
           ELSE ScoreAgainst(elements, non_para_sizes)

\* a key that tells candidates of different scores apart
StyleKey_with_score(c) ==
  << RoundToHalf(c.font_size), c.bold, c.italic, c.caps, c.centered, c.score >>

\* the key of lines 154-160
StyleKey(c) == << RoundToHalf(c.font_size), c.bold, c.italic, c.caps, c.centered >>

RECURSIVE Clusters(_)
\* the defaultdict of lines 152-161 as the sequence of its (key, items) pairs,
\* in the order in which the keys were first inserted
Clusters(candidates) ==
  IF candidates = << >> THEN << >>
  ELSE LET before == Clusters(SubSeq(candidates, 1, Len(candidates) - 1))
           c      == candidates[Len(candidates)]
           at     == { k \in 1..Len(before) : before[k].key = StyleKey(c) }
       IN  IF at = {} THEN Append(before, [key |-> StyleKey(c), items |-> << c >>])
           ELSE [k \in 1..Len(before) |->
                   IF k \in at
                   THEN [before[k] EXCEPT !.items = Append(@, c)]
                   ELSE before[k]]

ScoreSum(items) == SeqSum([k \in 1..Len(items) |-> items[k].score])

\* clusters ranked by the sum of their scores, not the mean
ClusterKeyLess_by_sum(a, b) ==
  \/ a.key[1] > b.key[1]
  \/ a.key[1] = b.key[1] /\ SeqSum([k \in 1..Len(a.items) |-> a.items[k].score])
                            > SeqSum([k \in 1..Len(b.items) |-> b.items[k].score])

\* the sort key of line 164 is (-rounded size, -sum(score) / len(items)); two
\* means are compared by cross-multiplication
ClusterKeyLess(a, b) ==
  \/ a.key[1] > b.key[1]
  \/ /\ a.key[1] = b.key[1]
     /\ ScoreSum(a.items) * Len(b.items) > ScoreSum(b.items) * Len(a.items)

SortedClusters(candidates) ==
  LET clusters == Clusters(candidates)
      less == [ij \in (1..Len(clusters)) \X (1..Len(clusters)) |->
                 ClusterKeyLess(clusters[ij[1]], clusters[ij[2]])]
  IN  StableSort(clusters, less)

\* a level that is not clamped
LevelName_unclamped(level) == "H" \o ToString(level)

\* f"H{min(level, 6)}"
LevelName(level) == "H" \o ToString(Min2(level, 6))

\* the dict of lines 169-175
MakeHeading(item, level) ==
  [level     |-> LevelName(level),
   text      |-> item.text,
   page      |-> item.page,
   font_size |-> item.font_size,
   position  |-> item.bbox]

RECURSIVE LeveledFrom(_, _)
\* the loops of lines 166-175, from cluster number level on
LeveledFrom(sorted_clusters, level) ==
  IF level > Len(sorted_clusters) THEN << >>
  ELSE LET items == sorted_clusters[level].items
       IN  [k \in 1..Len(items) |-> MakeHeading(items[k], level)]
           \o LeveledFrom(sorted_clusters, level + 1)

\* headings left in the order of their clusters
SortHeadings_unsorted(headings) == headings

\* headings.sort(key=lambda x: (x["page"], x["position"][1]))
ReadingKeyLess(a, b) ==
  \/ a.page < b.page
  \/ a.page = b.page /\ a.position[2] < b.position[2]

SortHeadings(headings) ==
  StableSort(headings,
             [ij \in (1..Len(headings)) \X (1..Len(headings)) |->
                ReadingKeyLess(headings[ij[1]], headings[ij[2]])])

assign_heading_levels(candidates) ==
  IF candidates = << >> THEN << >>
  ELSE SortHeadings(LeveledFrom(SortedClusters(candidates), 1))

(***************************************************************************)
(* Main function                                                           *)
(***************************************************************************)
\* the list comprehension of lines 189-190
Outline(headings) ==
  [k \in 1..Len(headings) |->
     [level |-> headings[k].level, text |-> headings[k].text, page |-> headings[k].page]]

(***************************************************************************)
(* State                                                                   *)
(***************************************************************************)
VARIABLES
  doc,         \* the lines the layout provider yields for the document
  elements,    \* extract_text_with_style's list
  title,       \* find_title's string
  candidates,  \* process_headings' list
  headings,    \* assign_heading_levels' list
  result,      \* the dict extract_document_structure returns
  raised,      \* the exception that ended the call, "" when none
  pc,          \* where extract_document_structure (or the batch loop) stands
  files,       \* os.listdir(INPUT_DIR)
  file_index,  \* the position of the batch loop in files
  output_dir,  \* the files of OUTPUT_DIR: name -> content
  printed      \* what the batch loop has printed

vars ==
  << doc, elements, title, candidates, headings, result, raised, pc,
     files, file_index, output_dir, printed >>

engine_vars == << doc, elements, title, candidates, headings, result, raised >>

batch_vars == << files, file_index, output_dir, printed >>

NoResult == [title |-> << >>, outline |-> << >>]

(***************************************************************************)
(* The documents explored                                                  *)
(***************************************************************************)
\* the longest document given to the whole engine
MaxLines == 3

\* the longest document given to the title detector
MaxTitleLines == 4

\* the longest candidate list given to assign_heading_levels
MaxCandidates == 3

\* the number of distinct styles among the candidates of the level clamp
NumClampStyles == 8

PAGE_WIDTH == 612

\* page.rect.width and enumerate's page_num
PageNums == { 0, 1 }

\* (bbox[0], bbox[2]): centred and wide; centred and narrow; off centre by
\* exactly 20, wide; narrow, 20 wide; no width
Boxes == { << 100, 512 >>, << 301, 311 >>, << 72, 520 >>, << 72, 92 >>, << 72, 72 >> }

\* a line of one span
Line(page_num, text, size, flags, box, y) ==
  [page_num   |-> page_num,
   page_width |-> PAGE_WIDTH,
   spans      |-> << [text |-> text, size |-> size, flags |-> flags] >>,
   bbox       |-> << box[1], y, box[2], y + 12 >>]

\* the pages a further line can be on: the provider yields page after page
PagesAfter(lines) ==
  IF lines = << >> THEN PageNums
  ELSE { p \in PageNums : p >= lines[Len(lines)].page_num }

\* sizes 10, 14 and 15
EngineSizes == { 40, 56, 60 }

IsPlain(line) ==
  /\ line.spans[1].text = TxtIntroduction
  /\ line.spans[1].flags = 0
  /\ line.bbox[1] = 72 /\ line.bbox[3] = 520

\* what the provider may yield after lines: any line as long as every line so
\* far is a plain one (the text Introduction, no style flag, off centre), a
\* plain line after that; the k-th line lies at height 10 * k
LinesAfter(lines) ==
  LET y == 10 * (Len(lines) + 1)
      all_plain == \A k \in 1..Len(lines) : IsPlain(lines[k])
      texts == IF all_plain THEN RichTexts ELSE { TxtIntroduction }
      flags == IF all_plain THEN { 0, 2 } ELSE { 0 }
      boxes == IF all_plain THEN Boxes ELSE { << 72, 520 >> }
  IN  { Line(p, x, size, f, box, y) :
          p \in PagesAfter(lines), x \in texts, size \in EngineSizes,
          f \in flags, box \in boxes }

\* sizes 12, 23.5 and 24
TitleSizes == { 48, 94, 96 }

\* the lines given to the title detector: the k-th line reads "Abk" and lies
\* at height 10 * k, in layout order, or at height 15, between the first line
\* and the second and level with every other line at 15
TitleLinesAfter(lines) ==
  { Line(p, IndexedText(Len(lines) + 1, FALSE), size, 0, << 72, 520 >>, y) :
      p \in PagesAfter(lines), size \in TitleSizes,
      y \in { 10 * (Len(lines) + 1), 15 } }

\* the candidate process_headings makes of a line with a given score
Candidate(line, score) == WithScore(MakeElement(line), score)

\* sizes 12, 12.25 and 12.5: the first two round to 12
LevelSizes == { 48, 49, 50 }

\* scores 5 and 6
LevelScores == { 10, 12 }

\* the candidates given to assign_heading_levels: the k-th reads "Abk"; it
\* varies in size and score at height 10, is bold at size 12, or varies in
\* height alone; pages do not decrease, as in the list
\* extract_text_with_style builds
CandidatesAfter(cands) ==
  LET x == IndexedText(Len(cands) + 1, FALSE)
      pages == IF cands = << >> THEN PageNums
               ELSE { p \in PageNums : p + 1 >= cands[Len(cands)].page }
  IN  { Candidate(Line(p, x, size, 0, << 72, 520 >>, 10), score) :
          p \in pages, size \in LevelSizes, score \in LevelScores }
      \cup
      { Candidate(Line(p, x, 48, 2, << 72, 520 >>, 10), score) :
          p \in pages, score \in LevelScores }
      \cup
      { Candidate(Line(p, x, 48, 0, << 72, 520 >>, y), 10) :
          p \in pages, y \in { 20, 30 } }

\* the i-th style of the level clamp: sizes 10, 12, 14 and 16, then the same
\* in bold, then the same in upper case
ClampLine(i) ==
  Line(0, IndexedText(i, (i - 1) \div 8 = 1), 40 + 8 * ((i - 1) % 4),
       IF ((i - 1) \div 4) % 2 = 1 THEN 2 ELSE 0, << 72, 520 >>, 10 * i)

\* the style number of a candidate of the level clamp
ClampIndex(c) == c.bbox[2] \div 10

\* the candidates of the level clamp: styles in increasing number, each at
\* most once, of score 5 or 6
ClampCandidatesAfter(cands) ==
  LET from == IF cands = << >> THEN 1 ELSE ClampIndex(cands[Len(cands)]) + 1
  IN  { Candidate(ClampLine(i), score) : i \in from..NumClampStyles, score \in LevelScores }

(***************************************************************************)
(* extract_document_structure, one step per call (lines 182-191)           *)
(***************************************************************************)
Init ==
  /\ doc = << >>
  /\ elements = << >>
  /\ title = << >>
  /\ candidates = << >>
  /\ headings = << >>
  /\ result = NoResult
  /\ raised = ""
  /\ pc = "input"
  /\ files = << >>
  /\ file_index = 1
  /\ output_dir = << >>
  /\ printed = << >>

\* the provider yields one more line of the document
ProvideLine(line) ==
  /\ pc = "input"
  /\ Len(doc) < MaxLines
  /\ line \in LinesAfter(doc)
  /\ doc' = Append(doc, line)
  /\ UNCHANGED << elements, title, candidates, headings, result, raised, pc >>
  /\ UNCHANGED batch_vars

\* elements = extract_text_with_style(pdf_path)
ExtractTextWithStyle ==
  /\ pc = "input"
  /\ elements' = extract_text_with_style(doc)
  /\ pc' = "extracted"
  /\ UNCHANGED << doc, title, candidates, headings, result, raised >>
  /\ UNCHANGED batch_vars

\* title = find_title(elements)
FindTitle ==
  /\ pc = "extracted"
  /\ LET r == find_title(elements)
     IN  /\ title' = r.val
         /\ raised' = r.exc
         /\ pc' = IF r.exc = "" THEN "titled" ELSE "raised"
  /\ UNCHANGED << doc, elements, candidates, headings, result >>
  /\ UNCHANGED batch_vars

\* candidates = process_headings(elements)
ProcessHeadings ==
  /\ pc = "titled"
  /\ LET r == process_headings(elements)
     IN  /\ candidates' = r.val
         /\ raised' = r.exc
         /\ pc' = IF r.exc = "" THEN "scored" ELSE "raised"
  /\ UNCHANGED << doc, elements, title, headings, result >>
  /\ UNCHANGED batch_vars

\* headings = assign_heading_levels(candidates)
AssignHeadingLevels ==
  /\ pc = "scored"
  /\ headings' = assign_heading_levels(candidates)
  /\ pc' = "leveled"
  /\ UNCHANGED << doc, elements, title, candidates, result, raised >>
  /\ UNCHANGED batch_vars

\* return {"title": title, "outline": [...]}
ReturnStructure ==
  /\ pc = "leveled"
  /\ result' = [title |-> title, outline |-> Outline(headings)]
  /\ pc' = "returned"
  /\ UNCHANGED << doc, elements, title, candidates, headings, raised >>
  /\ UNCHANGED batch_vars

Next ==
  \/ \E line \in LinesAfter(doc) : ProvideLine(line)
  \/ ExtractTextWithStyle
  \/ FindTitle
  \/ ProcessHeadings
  \/ AssignHeadingLevels
  \/ ReturnStructure

Spec == Init /\ [][Next]_vars

(***************************************************************************)
(* find_title on its own documents                                         *)
(***************************************************************************)
ProvideTitleLine(line) ==
  /\ pc = "input"
  /\ Len(doc) < MaxTitleLines
  /\ line \in TitleLinesAfter(doc)
  /\ doc' = Append(doc, line)
  /\ UNCHANGED << elements, title, candidates, headings, result, raised, pc >>
  /\ UNCHANGED batch_vars

NextTitle ==
  \/ \E line \in TitleLinesAfter(doc) : ProvideTitleLine(line)
  \/ ExtractTextWithStyle
  \/ FindTitle

SpecTitle == Init /\ [][NextTitle]_vars

(***************************************************************************)
(* assign_heading_levels on its own candidate lists                        *)
(***************************************************************************)
InitLevels ==
  /\ doc = << >>
  /\ elements = << >>
  /\ title = << >>
  /\ candidates = << >>
  /\ headings = << >>
  /\ result = NoResult
  /\ raised = ""
  /\ pc = "scored"
  /\ files = << >>
  /\ file_index = 1
  /\ output_dir = << >>
  /\ printed = << >>

GiveCandidate(c) ==
  /\ pc = "scored"
  /\ Len(candidates) < MaxCandidates
  /\ c \in CandidatesAfter(candidates)
  /\ candidates' = Append(candidates, c)
  /\ UNCHANGED << doc, elements, title, headings, result, raised, pc >>
  /\ UNCHANGED batch_vars

NextLevels ==
  \/ \E c \in CandidatesAfter(candidates) : GiveCandidate(c)
  \/ AssignHeadingLevels
  \/ ReturnStructure

SpecLevels == InitLevels /\ [][NextLevels]_vars

GiveClampCandidate(c) ==
  /\ pc = "scored"
  /\ c \in ClampCandidatesAfter(candidates)
  /\ candidates' = Append(candidates, c)
  /\ UNCHANGED << doc, elements, title, headings, result, raised, pc >>
  /\ UNCHANGED batch_vars

NextClamp ==
  \/ \E c \in ClampCandidatesAfter(candidates) : GiveClampCandidate(c)
  \/ AssignHeadingLevels
  \/ ReturnStructure

SpecClamp == InitLevels /\ [][NextClamp]_vars

(***************************************************************************)
(* Properties of the whole engine (specification Spec)                     *)
(***************************************************************************)
AfterExtract == pc \in { "extracted", "titled", "scored", "leveled", "returned" }

AfterScoring == pc \in { "scored", "leveled", "returned" }

\* C4.  A line whose stripped text is empty or matches a blocklist pattern
\* (is_blocked) is dropped by the extraction and never shows in the outline:
\* the extracted elements are exactly the lines that are not blocked, in
\* order, and every outline entry is the text and page of such a line.
BlockedLinesNeverEmitted ==
  /\ AfterExtract =>
       LET kept == SelectSeq(doc, LAMBDA l : ~Blocked(LineText(l)))
       IN  /\ Len(elements) = Len(kept)
           /\ \A k \in 1..Len(kept) :
                /\ elements[k].text = LineText(kept[k])
                /\ elements[k].bbox = kept[k].bbox
  /\ pc = "returned" =>
       \A k \in 1..Len(result.outline) :
         /\ ~Blocked(result.outline[k].text)
         /\ \E i \in 1..Len(doc) :
              /\ ~Blocked(LineText(doc[i]))
              /\ LineText(doc[i]) = result.outline[k].text
              /\ doc[i].page_num + 1 = result.outline[k].page

\* a document with a blocked line whose outline is not empty
BlockedLineBesideHeading ==
  /\ pc = "returned"
  /\ result.outline # << >>
  /\ \E i \in 1..Len(doc) : Blocked(LineText(doc[i])) /\ LineText(doc[i]) # << >>

\* the score the claim describes, in halves, of element e among elems: the
\* bucket of the size ratio taken over the lines that are not paragraphs
\* (ratio > 0.5: 3, > 0.2: 2, > 0: 1, else 0), +2 bold, +1 upper case with at
\* most 8 words, +1 centred, +1 for at most 10 words or else +0.5 for at most
\* 15, +1 for a density under 0.6, +2 heading-like
ClaimedScore2(e, elems) ==
  LET others == { k \in 1..Len(elems) : ~elems[k].is_paragraph }
      sizes  == { elems[k].font_size : k \in others }
      n      == Cardinality(others)
      hi     == CHOOSE x \in sizes : \A y \in sizes : y <= x
      lo     == CHOOSE x \in sizes : \A y \in sizes : x <= y
      \* n * (size - mean)
      above  == SeqSum([k \in 1..Len(elems) |->
                          IF k \in others THEN e.font_size - elems[k].font_size ELSE 0])
      bucket == IF 2 * above > n * (hi - lo) THEN 3
                ELSE IF 5 * above > n * (hi - lo) THEN 2
                ELSE IF above > 0 THEN 1
                ELSE 0
  IN  2 * bucket
      + (IF e.bold THEN 4 ELSE 0)
      + (IF e.caps /\ e.words <= 8 THEN 2 ELSE 0)
      + (IF e.centered THEN 2 ELSE 0)
      + (IF e.words <= 10 THEN 2 ELSE IF e.words <= 15 THEN 1 ELSE 0)
      + (IF e.density.den * 6 > e.density.num * 10 THEN 2 ELSE 0)
      + (IF e.heading_like THEN 4 ELSE 0)

\* the candidates made of element e (the lines of a document differ in bbox)
CandidatesOf(e) == { j \in 1..Len(candidates) : candidates[j].bbox = e.bbox }

\* C5.  process_headings keeps a line that is not a paragraph if and only if
\* its score is at least 5: a line of score 4 or 4.5 is left out, a line of
\* score 5 is kept, and a line flagged is_paragraph is never kept.  A kept
\* line carries its score, and the candidates follow the order of the lines.
ThresholdDecidesCandidates ==
  AfterScoring =>
    /\ \A k \in 1..Len(elements) :
         LET e == elements[k]
         IN  /\ (CandidatesOf(e) # {})
                  <=> (~e.is_paragraph /\ ClaimedScore2(e, elements) >= 10)
             /\ e.is_paragraph => CandidatesOf(e) = {}
             /\ \A j \in CandidatesOf(e) :
                  /\ candidates[j].score = ClaimedScore2(e, elements)
                  /\ candidates[j].text = e.text
    /\ \A j \in 1..Len(candidates) :
         \E k \in 1..Len(elements) : j \in CandidatesOf(elements[k])
    /\ \A i \in 1..Len(candidates), j \in 1..Len(candidates) :
         i < j => candidates[i].bbox[2] < candidates[j].bbox[2]

\* a line of score exactly 4 is left out beside a line of score exactly 5,
\* which is kept
ScoreFourOutScoreFiveIn ==
  /\ pc = "scored"
  /\ \E k \in 1..Len(elements), m \in 1..Len(elements) :
       /\ ~elements[k].is_paragraph
       /\ ClaimedScore2(elements[k], elements) = 8
       /\ CandidatesOf(elements[k]) = {}
       /\ ClaimedScore2(elements[m], elements) = 10
       /\ CandidatesOf(elements[m]) # {}

\* C7.  Degenerate input gives empty results, never an error: no call raises;
\* a document without lines returns the title "" and the outline []; without
\* a line on page 1 the title is ""; and when no line reaches the threshold
\* the outline is [] beside the title found, which is not empty as soon as
\* page 1 has a line.
DegenerateInputGivesEmptyResults ==
  /\ pc # "raised" /\ raised = ""
  /\ (pc = "returned" /\ doc = << >>) => result = [title |-> << >>, outline |-> << >>]
  /\ (pc \in { "titled", "scored", "leveled", "returned" }
        /\ \A k \in 1..Len(elements) : elements[k].page # 1) => title = << >>
  /\ (pc = "returned" /\ candidates = << >>) =>
       /\ result.outline = << >>
       /\ result.title = title
       /\ (title # << >>) <=> (\E k \in 1..Len(elements) : elements[k].page = 1)

\* a document with lines on page 1, none of which reaches the threshold
TitleWithoutOutline ==
  /\ pc = "returned"
  /\ elements # << >>
  /\ candidates = << >>
  /\ result.title # << >>
  /\ result.outline = << >>

\* a document whose lines are all paragraphs or all blocked, and a document
\* whose first page is empty
NothingToScore ==
  /\ pc = "returned"
  /\ doc # << >>
  /\ \A k \in 1..Len(elements) : elements[k].is_paragraph

FirstPageEmpty ==
  /\ pc = "returned"
  /\ elements # << >>
  /\ \A k \in 1..Len(elements) : elements[k].page # 1

(***************************************************************************)
(* Properties of find_title (specification SpecTitle)                      *)
(***************************************************************************)
\* the elements of page 1
FirstPage == { k \in 1..Len(elements) : elements[k].page = 1 }

\* those whose size is less than 0.5 below the largest size of page 1
LargestOfFirstPage ==
  { k \in FirstPage :
      \A j \in FirstPage : elements[j].font_size - elements[k].font_size < 2 }

\* the place of element k among them from the top of the page, lines at the
\* same height in the order of the list
PlaceFromTop(k) ==
  1 + Cardinality({ j \in LargestOfFirstPage :
                      \/ elements[j].bbox[2] < elements[k].bbox[2]
                      \/ elements[j].bbox[2] = elements[k].bbox[2] /\ j < k })

TextAtPlace(n) ==
  elements[CHOOSE k \in LargestOfFirstPage : PlaceFromTop(k) = n].text

ClaimedTitle ==
  LET n == Cardinality(LargestOfFirstPage)
  IN  IF n = 0 THEN << >>
      ELSE IF n = 1 THEN TextAtPlace(1)
      ELSE IF n = 2 THEN TextAtPlace(1) \o << " " >> \o TextAtPlace(2)
      ELSE TextAtPlace(1) \o << " " >> \o TextAtPlace(2) \o << " " >> \o TextAtPlace(3)

\* C6.  The title is made of the lines of page 1 whose size is within 0.5 of
\* (less than 0.5 below) the largest size of page 1: of these, taken from the
\* top of the page down, the texts of the first three joined by single spaces.
TitleIsTopThreeOfLargest ==
  /\ pc # "raised"
  /\ pc = "titled" => title = ClaimedTitle

\* page 1 holds sizes 24, 24, 12, 24 from the top down, and the title is the
\* three lines of size 24
TitleOfTheExample ==
  /\ pc = "titled"
  /\ Len(elements) = 4
  /\ \A k \in 1..4 : elements[k].page = 1 /\ elements[k].bbox[2] = 10 * k
  /\ [k \in 1..4 |-> elements[k].font_size] = << 96, 96, 48, 96 >>
  /\ title = << "A", "b", "1", " ", "A", "b", "2", " ", "A", "b", "4" >>

\* four lines of the largest size, not in the order of their heights
TitleOfFourLargest ==
  /\ pc = "titled"
  /\ Cardinality(LargestOfFirstPage) = 4
  /\ title = << "A", "b", "1", " ", "A", "b", "3", " ", "A", "b", "4" >>

(***************************************************************************)
(* Properties of assign_heading_levels (SpecLevels, SpecClamp)             *)
(***************************************************************************)
AfterLevels == pc \in { "leveled", "returned" }

InReadingOrder(a, b) ==
  \/ a.page < b.page
  \/ a.page = b.page /\ a.position[2] <= b.position[2]

\* C1.  The list assign_heading_levels returns, and with it the outline, is in
\* reading order: of two consecutive entries the first is on an earlier page,
\* or on the same page and not lower (bbox[1]) than the second.  The list
\* holds every candidate, and the outline is the list entry by entry.
OutlineInReadingOrder ==
  /\ AfterLevels =>
       /\ Len(headings) = Len(candidates)
       /\ \A k \in 1..(Len(headings) - 1) : InReadingOrder(headings[k], headings[k + 1])
       /\ \A i \in 1..Len(candidates) :
            \E k \in 1..Len(headings) :
              /\ headings[k].text = candidates[i].text
              /\ headings[k].page = candidates[i].page
              /\ headings[k].position = candidates[i].bbox
  /\ pc = "returned" =>
       /\ Len(result.outline) = Len(headings)
       /\ \A k \in 1..Len(headings) :
            /\ result.outline[k].text = headings[k].text
            /\ result.outline[k].page = headings[k].page
            /\ result.outline[k].level = headings[k].level

\* three candidates on two pages that were not given in reading order
ReorderedOutline ==
  /\ pc = "returned"
  /\ Len(candidates) = 3
  /\ \E i \in 1..3, j \in 1..3 :
       /\ i < j
       /\ candidates[i].page = candidates[j].page
       /\ candidates[j].bbox[2] < candidates[i].bbox[2]
  /\ \E i \in 1..3, j \in 1..3 : candidates[i].page # candidates[j].page
  /\ \E i \in 1..3, j \in 1..3 : headings[i].level # headings[j].level

\* the level given to the i-th candidate (candidates differ in their texts)
LevelOf(i) ==
  headings[CHOOSE k \in 1..Len(headings) : headings[k].text = candidates[i].text].level

SameStyle(a, b) ==
  /\ a.font_size = b.font_size
  /\ a.bold = b.bold
  /\ a.italic = b.italic
  /\ a.caps = b.caps
  /\ a.centered = b.centered

\* C3.  Two candidates of the same font size, bold, italic, caps and centered
\* get the same level, whatever their scores, pages and positions.
SameStyleSameLevel ==
  AfterLevels =>
    \A i \in 1..Len(candidates), j \in 1..Len(candidates) :
      SameStyle(candidates[i], candidates[j]) => LevelOf(i) = LevelOf(j)

\* two candidates of one style with different scores on different pages, and
\* a third of another level
SameStyleOtherScore ==
  /\ pc = "leveled"
  /\ \E i \in 1..Len(candidates), j \in 1..Len(candidates), m \in 1..Len(candidates) :
       /\ SameStyle(candidates[i], candidates[j])
       /\ candidates[i].score # candidates[j].score
       /\ candidates[i].page # candidates[j].page
       /\ LevelOf(m) # LevelOf(i)

\* a size rounded to the nearest half point, in quarters of a point: twice the
\* integer m nearest to q / 2, the even one of the two when q / 2 lies halfway
NearestHalfPoint(q) ==
  2 * (CHOOSE m \in { q \div 2, q \div 2 + 1 } :
         /\ Abs(2 * m - q) <= 1
         /\ Abs(2 * m - q) = 1 => m % 2 = 0)

\* the style groups of the candidates and their ranks.  A group is named by
\* the first of its candidates; group g is ranked before group h when it has
\* the larger rounded size, then the larger mean score (means compared by
\* cross-multiplication), then (the sort being stable) when it is met first.
Ranking ==
  LET n       == Len(candidates)
      rounded == [i \in 1..n |-> NearestHalfPoint(candidates[i].font_size)]
      same    == [ij \in (1..n) \X (1..n) |->
                    /\ rounded[ij[1]] = rounded[ij[2]]
                    /\ candidates[ij[1]].bold = candidates[ij[2]].bold
                    /\ candidates[ij[1]].italic = candidates[ij[2]].italic
                    /\ candidates[ij[1]].caps = candidates[ij[2]].caps
                    /\ candidates[ij[1]].centered = candidates[ij[2]].centered]
      group   == [i \in 1..n |->
                    CHOOSE g \in 1..i :
                      same[<< g, i >>] /\ \A h \in 1..(g - 1) : ~same[<< h, i >>]]
      groups  == { group[i] : i \in 1..n }
      count   == [g \in groups |-> Cardinality({ i \in 1..n : group[i] = g })]
      total   == [g \in groups |->
                    SeqSum([i \in 1..n |-> IF group[i] = g THEN candidates[i].score ELSE 0])]
      before  == [gh \in groups \X groups |->
                    LET g == gh[1]
                        h == gh[2]
                    IN  \/ rounded[g] > rounded[h]
                        \/ /\ rounded[g] = rounded[h]
                           /\ total[g] * count[h] > total[h] * count[g]
                        \/ /\ rounded[g] = rounded[h]
                           /\ total[g] * count[h] = total[h] * count[g]
                           /\ g < h]
      rank    == [g \in groups |-> 1 + Cardinality({ h \in groups : before[<< h, g >>] })]
  IN  [rounded |-> rounded, group |-> group, groups |-> groups, count |-> count,
       total |-> total, rank |-> rank]

LevelNames == << "H1", "H2", "H3", "H4", "H5", "H6", "H7", "H8", "H9" >>

LevelNumber(i) == CHOOSE n \in 1..9 : LevelOf(i) = LevelNames[n]

\* C10.  Each candidate gets the level H{min(r, 6)}, r being the rank of its
\* style group when the groups are ordered by descending rounded font size
\* and, at equal rounded size, by descending mean score.  So a candidate of a
\* larger rounded size is never at a deeper level than one of a smaller
\* rounded size, and some candidate is at H1.
LevelsFollowGroupRank ==
  AfterLevels =>
    LET t == Ranking
        n == Len(candidates)
        level == [i \in 1..n |-> LevelNumber(i)]
    IN  /\ \A i \in 1..n :
             LET r == t.rank[t.group[i]]
             IN  LevelOf(i) = LevelNames[IF r < 6 THEN r ELSE 6]
        /\ \A i \in 1..n, j \in 1..n :
             t.rounded[i] > t.rounded[j] => level[i] <= level[j]
        /\ n > 0 => \E i \in 1..n : level[i] = 1

\* two groups of one rounded size (12 and 12.25 round to 12), of which the one
\* with the smaller sum of scores has the larger mean and the higher level
MeanDecidesRank ==
  /\ pc = "leveled"
  /\ Len(candidates) = 3
  /\ LET t == Ranking
     IN  \E g \in t.groups, h \in t.groups :
           /\ t.rounded[g] = t.rounded[h]
           /\ t.total[g] > t.total[h]
           /\ t.total[h] * t.count[g] > t.total[g] * t.count[h]
           /\ LevelNumber(h) < LevelNumber(g)
           /\ \E i \in 1..3 : t.group[i] = g /\ candidates[i].font_size # candidates[g].font_size

\* C2.  Every level of the outline is one of H1 .. H6, however many style
\* groups the candidates fall into, more than six included.
LevelsAreH1ToH6 ==
  /\ AfterLevels =>
       \A k \in 1..Len(headings) :
         headings[k].level \in { "H1", "H2", "H3", "H4", "H5", "H6" }
  /\ pc = "returned" =>
       /\ Len(result.outline) = Len(candidates)
       /\ \A k \in 1..Len(result.outline) :
            result.outline[k].level \in { "H1", "H2", "H3", "H4", "H5", "H6" }

\* candidates of eight styles: the sixth, seventh and eighth group are at H6
MoreThanSixStyles ==
  /\ pc = "returned"
  /\ Cardinality({ << candidates[i].font_size, candidates[i].bold, candidates[i].caps >> :
                     i \in 1..Len(candidates) }) >= 8
  /\ Cardinality({ k \in 1..Len(result.outline) : result.outline[k].level = "H6" }) >= 3
  /\ \E k \in 1..Len(result.outline) : result.outline[k].level = "H1"

(***************************************************************************)
(* Batch execution (lines 201-216)                                         *)
(***************************************************************************)
\* extract_document_structure as one call: the dict it returns, or the
\* exception one of its calls raises
extract_document_structure(lines) ==
  LET els == extract_text_with_style(lines)
      t   == find_title(els)
      c   == process_headings(els)
  IN  IF t.exc # "" THEN Raise(t.exc)
      ELSE IF c.exc # "" THEN Raise(c.exc)
      ELSE Ok([title |-> t.val, outline |-> Outline(assign_heading_levels(c.val))])

\* the entries of INPUT_DIR: two documents whose names differ in the case of
\* the extension, a third document, and a file that is no document
FileAPdf == << "a", ".", "p", "d", "f" >>

FileAPDF == << "a", ".", "P", "D", "F" >>

FileBPdf == << "b", ".", "p", "d", "f" >>

FileNotes == << "n", "o", "t", "e", "s", ".", "t", "x", "t" >>

FileNames == { FileAPdf, FileAPDF, FileBPdf, FileNotes }

\* the lines the layout provider yields for each: a bold centred heading; an
\* upper-case line that is no heading; nothing at all
FileLines(file) ==
  IF file = FileAPdf THEN << Line(0, TxtIntroduction, 60, 2, << 100, 512 >>, 10) >>
  ELSE IF file = FileAPDF THEN << Line(0, TxtResults, 56, 0, << 100, 512 >>, 10) >>
  ELSE << >>

\* extract_document_structure of each entry, computed once
Structures == [file \in FileNames |-> extract_document_structure(FileLines(file))]

\* the longest directory listing
MaxFiles == 3

\* os.listdir: distinct names, in any order
Listings ==
  { fs \in UNION { [1..n -> FileNames] : n \in 0..MaxFiles } :
      \A i \in 1..Len(fs), j \in 1..Len(fs) : i # j => fs[i] # fs[j] }

\* file.lower().endswith(".pdf")
IsPdf(file) == EndsWith(Lower(file), << ".", "p", "d", "f" >>)

\* file.rsplit(".", 1)[0]
RSplitDotHead(file) ==
  LET dots == { i \in 1..Len(file) : file[i] = "." }
  IN  IF dots = {} THEN file
      ELSE SubSeq(file, 1, (CHOOSE i \in dots : \A j \in dots : j <= i) - 1)

\* output_path, less OUTPUT_DIR
OutputName(file) == RSplitDotHead(file) \o << ".", "j", "s", "o", "n" >>

\* the directory with the file name holding content
WithFile(dir, name, content) ==
  [n \in (DOMAIN dir) \cup { name } |-> IF n = name THEN content ELSE dir[n]]

\* what json.dump leaves in the file when it completes, and what is left of
\* a file opened for writing when the dump raises
Dumped(data) == [complete |-> TRUE, data |-> data]

Truncated == [complete |-> FALSE, data |-> NoResult]

\* what the loop prints: the kind of message, the file and the exception
\* the message names
Message(kind, file, error) == [kind |-> kind, file |-> file, error |-> error]

\* an exception that does not stop the loop
HandlerCatches_nothing == FALSE

\* the try statement of lines 209-214 has an except Exception clause
HandlerCatches == TRUE

InitBatch ==
  /\ doc = << >>
  /\ elements = << >>
  /\ title = << >>
  /\ candidates = << >>
  /\ headings = << >>
  /\ result = NoResult
  /\ raised = ""
  /\ pc = "loop"
  /\ files \in Listings
  /\ file_index = 1
  /\ output_dir = << >>
  /\ printed = << >>

InLoop == pc = "loop" /\ file_index <= Len(files)

\* the body raised for files[file_index]: the handler prints the failure and
\* the loop goes on, or the exception ends the program
AfterException(e) ==
  IF HandlerCatches
  THEN /\ printed' = Append(printed, Message("Failed", files[file_index], e))
       /\ file_index' = file_index + 1
       /\ pc' = "loop"
  ELSE /\ pc' = "crashed"
       /\ UNCHANGED << printed, file_index >>

\* an entry that does not end in .pdf is passed over
SkipFile ==
  /\ InLoop
  /\ ~IsPdf(files[file_index])
  /\ file_index' = file_index + 1
  /\ UNCHANGED << files, output_dir, printed, pc >>
  /\ UNCHANGED engine_vars

\* fitz.open raises: the provider cannot read the document
FailToExtract ==
  /\ InLoop
  /\ IsPdf(files[file_index])
  /\ AfterException("FileDataError")
  /\ UNCHANGED << files, output_dir >>
  /\ UNCHANGED engine_vars

\* open(output_path, 'w') raises: no file is written
FailToOpenOutput ==
  /\ InLoop
  /\ IsPdf(files[file_index])
  /\ Structures[files[file_index]].exc = ""
  /\ AfterException("PermissionError")
  /\ UNCHANGED << files, output_dir >>
  /\ UNCHANGED engine_vars

\* json.dump raises after open has created or truncated the file
FailToDump ==
  /\ InLoop
  /\ IsPdf(files[file_index])
  /\ Structures[files[file_index]].exc = ""
  /\ output_dir' = WithFile(output_dir, OutputName(files[file_index]), Truncated)
  /\ AfterException("OSError")
  /\ UNCHANGED files
  /\ UNCHANGED engine_vars

\* the document is extracted and saved
ProcessFile ==
  /\ InLoop
  /\ IsPdf(files[file_index])
  /\ IF Structures[files[file_index]].exc = ""
     THEN /\ output_dir' = WithFile(output_dir, OutputName(files[file_index]),
                                    Dumped(Structures[files[file_index]].val))
          /\ printed' = Append(printed, Message("Processed", files[file_index], ""))
          /\ file_index' = file_index + 1
          /\ pc' = "loop"
     ELSE /\ AfterException(Structures[files[file_index]].exc)
          /\ UNCHANGED output_dir
  /\ UNCHANGED files
  /\ UNCHANGED engine_vars

\* the loop is over: print("Finished processing all PDFs")
Finish ==
  /\ pc = "loop"
  /\ file_index > Len(files)
  /\ printed' = Append(printed, Message("Finished", << >>, ""))
  /\ pc' = "finished"
  /\ UNCHANGED << files, file_index, output_dir >>
  /\ UNCHANGED engine_vars

NextBatch ==
  \/ SkipFile
  \/ FailToExtract
  \/ FailToOpenOutput
  \/ FailToDump
  \/ ProcessFile
  \/ Finish

\* the loop is sequential code: it takes its next step as long as it has one
SpecBatch == InitBatch /\ [][NextBatch]_vars /\ WF_vars(NextBatch)

(***************************************************************************)
(* Properties of the batch loop (specification SpecBatch)                  *)
(***************************************************************************)
Reports(file) ==
  { k \in 1..Len(printed) :
      printed[k].file = file /\ printed[k].kind \in { "Processed", "Failed" } }

\* C8.  A failure while extracting or saving one document does not stop the
\* loop: the run comes to print Finished, and by then every .pdf entry of the
\* directory has exactly one report of its own, Processed or Failed, under
\* its file name, whichever other entries failed.
EveryDocumentIsReported ==
  <>(/\ pc = "finished"
     /\ printed[Len(printed)].kind = "Finished"
     /\ \A k \in 1..Len(files) :
          IsPdf(files[k]) => Cardinality(Reports(files[k])) = 1)

\* a run in which the first document failed and a later one was processed
ProcessedAfterFailure ==
  /\ pc = "finished"
  /\ Len(printed) >= 3
  /\ printed[1].kind = "Failed"
  /\ \E k \in 2..Len(printed) : printed[k].kind = "Processed"

\* the inputs reported as processed
Processed ==
  { files[k] : k \in { i \in 1..Len(files) : Message("Processed", files[i], "") \in
                                               { printed[j] : j \in 1..Len(printed) } } }

\* the name of the input with .json in place of its extension
JsonName(file) == SubSeq(file, 1, Len(file) - 4) \o << ".", "j", "s", "o", "n" >>

\* C9.  After a run every input processed with success has an output file of
\* its own, named after it with .json for the extension, that holds its
\* result: there are as many complete output records as inputs processed, and
\* no record is overwritten by that of another input.
OneOutputPerProcessedInput ==
  pc = "finished" =>
    /\ \A file \in Processed :
         /\ JsonName(file) \in DOMAIN output_dir
         /\ output_dir[JsonName(file)] =
              Dumped(Structures[file].val)
    /\ Cardinality({ n \in DOMAIN output_dir : output_dir[n].complete })
         = Cardinality(Processed)

=============================================================================
